---- MODULE Spec2Model ----
(***************************************************************************)
(* The text-to-speech generation and caching subsystem of src/server.js:   *)
(* the chunker (splitTextIntoChunks), the voice resolver (getVoiceConfig), *)
(* the Firestore-backed cache (class TTSCache) and the two routes that     *)
(* synthesize audio (POST /api/tts/generate and                            *)
(* POST /api/admin/tts/pregenerate).                                       *)
(*                                                                         *)
(* A JavaScript string is a sequence of one-character strings, so that     *)
(* .length, concatenation and the two split calls of the chunker are       *)
(* computed as the code computes them.                                     *)
(***************************************************************************)
EXTENDS Integers, Sequences, FiniteSets, TLC

\* ------------------------------------------------------------------------
\* Bounds of the model
\* ------------------------------------------------------------------------

\* Longest text given to the chunker in SpecChunker.
MaxTextLen == 6

\* Last instant of the clock (Date.now() ranges over 0..MaxTime).
MaxTime == 2

\* ------------------------------------------------------------------------
\* TTS_CONFIG (src/server.js:27-32), scaled so that texts of a few
\* characters exceed the chunk budget and a few clock ticks exceed the TTL.
\* ------------------------------------------------------------------------

maxChunkSize == 3

cacheTtl == 1

\* ------------------------------------------------------------------------
\* Strings
\* ------------------------------------------------------------------------

\* Characters of the texts: a letter, a sentence terminator, a space and a
\* second whitespace character (a tab), which \s matches and " " does not.
Alphabet == {"a", ".", " ", "\t"}

\* The class \s of the sentence regex.
IsSpace(c) == c \in {" ", "\t"}

\* The class [.!?] of the sentence regex.
IsTerminator(c) == c \in {".", "!", "?"}

\* All strings over Alphabet of length at most n.
StringsUpTo(n) == UNION {[1..k -> Alphabet] : k \in 0..n}

\* First index >= i of s that is not whitespace (Len(s)+1 when there is none):
\* the end of the greedy match of \s+ that starts at i.
RECURSIVE SkipSpaces(_, _)
SkipSpaces(s, i) ==
  IF i <= Len(s) /\ IsSpace(s[i]) THEN SkipSpaces(s, i + 1) ELSE i

\* text.split(/(?<=[.!?])\s+/): cut at every maximal whitespace run that
\* directly follows a terminator; a run at the end of the text leaves a
\* trailing empty piece, as String.prototype.split does.
RECURSIVE SplitSentencesFrom(_, _, _)
SplitSentencesFrom(s, i, cur) ==
  IF i > Len(s) THEN <<cur>>
  ELSE IF IsSpace(s[i]) /\ i > 1 /\ IsTerminator(s[i - 1])
       THEN <<cur>> \o SplitSentencesFrom(s, SkipSpaces(s, i), <<>>)
       ELSE SplitSentencesFrom(s, i + 1, Append(cur, s[i]))

SplitSentences(s) == SplitSentencesFrom(s, 1, <<>>)

\* sentence.split(" "): cut at every single space; adjacent spaces leave
\* empty pieces.
RECURSIVE SplitWordsFrom(_, _, _)
SplitWordsFrom(s, i, cur) ==
  IF i > Len(s) THEN <<cur>>
  ELSE IF s[i] = " "
       THEN <<cur>> \o SplitWordsFrom(s, i + 1, <<>>)
       ELSE SplitWordsFrom(s, i + 1, Append(cur, s[i]))

SplitWords(s) == SplitWordsFrom(s, 1, <<>>)

\* ------------------------------------------------------------------------
\* splitTextIntoChunks (src/server.js:448-487)
\* ------------------------------------------------------------------------

\* The piece appended with no space before it.
JoinPieceNoSpace(cur, piece) == cur \o piece

\* currentChunk += (currentChunk ? " " : "") + piece
JoinPiece(cur, piece) ==
  cur \o (IF cur # <<>> THEN <<" ">> ELSE <<>>) \o piece

\* One iteration of the inner loop over the words of an oversized sentence.
\* st = [chunks |-> chunks pushed so far, cur |-> currentChunk].
WordStep(st, word) ==
  IF Len(st.cur \o word) <= maxChunkSize
  THEN [st EXCEPT !.cur = JoinPiece(st.cur, word)]
  ELSE [chunks |-> IF st.cur # <<>> THEN Append(st.chunks, st.cur)
                   ELSE st.chunks,
        cur |-> word]

RECURSIVE WordLoop(_, _, _)
WordLoop(st, words, i) ==
  IF i > Len(words) THEN st
  ELSE WordLoop(WordStep(st, words[i]), words, i + 1)

\* One iteration of the outer loop over the sentences.
SentenceStep(st, sentence) ==
  IF Len(st.cur \o sentence) <= maxChunkSize
  THEN [st EXCEPT !.cur = JoinPiece(st.cur, sentence)]
  ELSE LET pushed == IF st.cur # <<>> THEN Append(st.chunks, st.cur)
                     ELSE st.chunks
       IN IF Len(sentence) > maxChunkSize
          THEN WordLoop([chunks |-> pushed, cur |-> <<>>],
                        SplitWords(sentence), 1)
          ELSE [chunks |-> pushed, cur |-> sentence]

RECURSIVE SentenceLoop(_, _, _)
SentenceLoop(st, sentences, i) ==
  IF i > Len(sentences) THEN st
  ELSE SentenceLoop(SentenceStep(st, sentences[i]), sentences, i + 1)

splitTextIntoChunks(text) ==
  IF text = <<>> \/ Len(text) <= maxChunkSize THEN <<text>>
  ELSE LET st == SentenceLoop([chunks |-> <<>>, cur |-> <<>>],
                              SplitSentences(text), 1)
       IN IF st.cur # <<>> THEN Append(st.chunks, st.cur) ELSE st.chunks

\* ------------------------------------------------------------------------
\* getVoiceConfig (src/server.js:490-500)
\* ------------------------------------------------------------------------

Str_en == <<"e", "n">>
Str_es == <<"e", "s">>
Str_fr == <<"f", "r">>
Str_zh == <<"z", "h">>
Str_enUS == <<"e", "n", "-", "U", "S">>

voices ==
  [l \in {Str_en, Str_es, Str_fr, Str_zh} |->
     CASE l = Str_en -> [languageCode |-> "en-US", name |-> "en-US-Neural2-F"]
       [] l = Str_es -> [languageCode |-> "es-ES", name |-> "es-ES-Neural2-B"]
       [] l = Str_fr -> [languageCode |-> "fr-FR", name |-> "fr-FR-Neural2-B"]
       [] l = Str_zh -> [languageCode |-> "cmn-CN", name |-> "cmn-CN-Neural2-A"]]

\* language.split("-")[0]
RECURSIVE PrimarySubtagFrom(_, _)
PrimarySubtagFrom(language, i) ==
  IF i > Len(language) \/ language[i] = "-" THEN SubSeq(language, 1, i - 1)
  ELSE PrimarySubtagFrom(language, i + 1)

Str_constructor == <<"c", "o", "n", "s", "t", "r", "u", "c", "t", "o", "r">>
Str_toString == <<"t", "o", "S", "t", "r", "i", "n", "g">>

\* What the object literal voices inherits from Object.prototype (two of its
\* members): functions, which are truthy, have their own .name and no
\* .languageCode.
ObjectPrototype ==
  [k \in {Str_constructor, Str_toString} |->
     [languageCode |-> "undefined",
      name |-> IF k = Str_constructor THEN "Object" ELSE "toString"]]

\* voices[langCode] || voices["en"]: the property is looked up in the object
\* and then in its prototype; undefined is falsy.
getVoiceConfig(language) ==
  LET langCode == PrimarySubtagFrom(language, 1)
  IN IF langCode \in DOMAIN voices THEN voices[langCode]
     ELSE IF langCode \in DOMAIN ObjectPrototype THEN ObjectPrototype[langCode]
     ELSE voices[Str_en]

\* ------------------------------------------------------------------------
\* class TTSCache (src/server.js:381-443) over the ttsCache collection
\* ------------------------------------------------------------------------

\* JSON.stringify(voiceConfig): the fields in the order of the object
\* literal, as a sequence of tokens.
JSONstringify(voiceConfig) ==
  <<"{", "languageCode", ":", voiceConfig.languageCode, ",",
    "name", ":", voiceConfig.name, "}">>

\* A key made of the text alone.
generateHashTextOnly(text, voiceConfig) == text

\* md5(text + JSON.stringify(voiceConfig)); the digest is taken to be free of
\* collisions, so the concatenation stands for it.
generateHash(text, voiceConfig) == text \o JSONstringify(voiceConfig)

\* The value getCachedAudio returns when there is nothing to return.
Null == <<"null">>

\* getCachedAudio without the age check.
getCachedAudioNoTtl(coll, t, text, voiceConfig) ==
  LET hash == generateHash(text, voiceConfig)
  IN IF hash \in DOMAIN coll THEN coll[hash].audioContent ELSE Null

\* getCachedAudio against the collection coll at time t.
getCachedAudio(coll, t, text, voiceConfig) ==
  LET hash == generateHash(text, voiceConfig)
  IN IF hash \in DOMAIN coll /\ t - coll[hash].timestamp < cacheTtl
     THEN coll[hash].audioContent
     ELSE Null

\* The document setCachedAudio writes; t is Date.now() at the call.
CacheDoc(text, voiceConfig, audioContent, t) ==
  [audioContent |-> audioContent,
   textLength |-> Len(text),
   voiceConfig |-> voiceConfig,
   timestamp |-> t,
   accessedCount |-> 0]

\* A set that merges into an existing document and keeps its timestamp.
DocSetKeepTimestamp(coll, hash, data) ==
  [h \in DOMAIN coll \cup {hash} |->
     IF h # hash THEN coll[h]
     ELSE IF hash \in DOMAIN coll
          THEN [data EXCEPT !.timestamp = coll[hash].timestamp]
          ELSE data]

\* A set that creates the document and leaves an existing one as it is.
DocSetIfAbsent(coll, hash, data) ==
  [h \in DOMAIN coll \cup {hash} |-> IF h \in DOMAIN coll THEN coll[h] ELSE data]

\* doc(hash).set(data): create or replace the whole document.
DocSet(coll, hash, data) ==
  [h \in DOMAIN coll \cup {hash} |-> IF h = hash THEN data ELSE coll[h]]

\* The query for old entries with the cutoff itself counted as old.
OldCacheQueryInclusive(coll, t, ttl) ==
  {h \in DOMAIN coll : coll[h].timestamp <= t - ttl}

\* The snapshot of cleanupOldCache: where("timestamp", "<", Date.now() - ttl).
OldCacheQuery(coll, t, ttl) ==
  {h \in DOMAIN coll : coll[h].timestamp < t - ttl}

\* batch.delete of every document of the snapshot, committed at once.
BatchDelete(coll, hashes) ==
  [h \in DOMAIN coll \ hashes |-> coll[h]]

\* JavaScript truthiness of what getCachedAudio returns: null and the empty
\* string are falsy.
Truthy(v) == v # Null /\ v # <<>>

\* ------------------------------------------------------------------------
\* Inputs and collaborators
\* ------------------------------------------------------------------------

\* Request slots of POST /api/tts/generate; each serves one request.
Reqs == {1, 2}

Txt_aa == <<"a", "a", ".">>
Txt_dot_aa == <<".", " ", "a", "a", ".">>

\* req.body.text: absent, one segment, two segments.
Texts == {<<>>, Txt_aa, Txt_dot_aa}

\* req.body.language.
Languages == {Str_enUS, Str_es}

\* req.body.sermonId (NoSermon: absent).
NoSermon == "none"
SermonIds == {"s1"}

\* The sermons collection.
sermons == [id \in SermonIds |-> [translations |-> [en |-> <<>>], content |-> Txt_dot_aa]]

\* A text with nothing to pronounce.
Unspoken(text) == \A i \in 1..Len(text) : text[i] # "a"

\* response.audioContent.toString("base64") of ttsClient.synthesizeSpeech:
\* audio that depends on the text and the voice only; silent says whether
\* the service answers a text with nothing to pronounce with zero bytes.
SynthesizedAudio(silent, text, voiceConfig) ==
  IF silent /\ Unspoken(text) THEN <<>>
  ELSE <<"mp3">> \o text \o <<voiceConfig.name>>

\* ------------------------------------------------------------------------
\* State
\* ------------------------------------------------------------------------

VARIABLES
  now,            \* Date.now()
  ttsCache,       \* the ttsCache collection: hash -> document
  ttsUsage,       \* the ttsUsage collection, in the order of the adds
  silent,         \* whether the service returns zero bytes for unspoken text
  gen,            \* the requests of POST /api/tts/generate, by slot
  pre,            \* the request of POST /api/admin/tts/pregenerate
  sweep,          \* the run of cleanupOldCache
  sweepCommits,   \* number of batches cleanupOldCache has committed
  chunkerText,    \* the text handed to the chunker (SpecChunker)
  chunkerOut,     \* its result, or NotRun
  hashArgs,       \* a stored and a looked-up (text, voiceConfig) (SpecHash)
  hashOut,        \* the two keys and what the lookup returned, or NoHashOut
  voiceArg,       \* the language tag handed to getVoiceConfig (SpecVoice)
  voiceOut        \* its result, or NoVoiceOut

NotRun == [ran |-> FALSE, chunks |-> <<>>]

NoHashArgs ==
  [text1 |-> <<>>, voiceConfig1 |-> voices[Str_en],
   text2 |-> <<>>, voiceConfig2 |-> voices[Str_en]]

NoHashOut == [ran |-> FALSE, hash1 |-> <<>>, hash2 |-> <<>>, cachedAudio |-> Null]

NoVoiceOut == [ran |-> FALSE, voiceConfig |-> voices[Str_en]]

vars == <<now, ttsCache, ttsUsage, silent, gen, pre, sweep, sweepCommits,
          chunkerText, chunkerOut, hashArgs, hashOut, voiceArg, voiceOut>>

chunkerVars == <<chunkerText, chunkerOut>>

\* The variables of the specifications of the pure functions.
pureVars == <<chunkerText, chunkerOut, hashArgs, hashOut, voiceArg, voiceOut>>

serverVars == <<now, ttsCache, ttsUsage, silent, gen, pre, sweep, sweepCommits>>

\* ------------------------------------------------------------------------
\* POST /api/tts/generate (src/server.js:505-583)
\* ------------------------------------------------------------------------

NoResponse == [status |-> 0, body |-> [pending |-> TRUE]]

\* A slot before its request arrives.
IdleReq ==
  [pc |-> "idle", text |-> <<>>, language |-> <<>>, sermonId |-> NoSermon,
   voiceConfig |-> voices[Str_en], chunks |-> <<>>, idx |-> 1,
   cachedChunks |-> <<>>, chunksToGenerate |-> <<>>, promises |-> <<>>,
   caught |-> "none", resp |-> NoResponse,
   \* history, read by the properties only
   sawExpired |-> FALSE]

\* res.status(code).json(body), once per request.
Respond(g, code, body) ==
  [g EXCEPT !.pc = "responded",
            !.resp = [status |-> code, body |-> body]]

\* The catch block of the route, entered with the error that was thrown.
RespondFailure(g, error) ==
  Respond([g EXCEPT !.caught = error], 500,
          [error |-> "Failed to generate TTS audio"])

\* The rejection reason of the first rejected promise in the list.
FirstRejection(g) ==
  LET i == CHOOSE j \in 1..Len(g.promises) : g.promises[j].state = "rejected"
  IN g.promises[i].reason

\* The generated chunks in the reverse order of the promises.
GeneratedChunksReversed(g) ==
  [i \in 1..Len(g.promises) |->
     [text |-> g.chunksToGenerate[Len(g.promises) + 1 - i],
      audioContent |-> g.promises[Len(g.promises) + 1 - i].audioContent,
      cached |-> FALSE]]

\* generatedChunks: what Promise.all resolves to, in the order of the
\* promises whatever the order in which they settled.
GeneratedChunks(g) ==
  [i \in 1..Len(g.promises) |->
     [text |-> g.chunksToGenerate[i],
      audioContent |-> g.promises[i].audioContent,
      cached |-> FALSE]]

\* const allChunks = [...cachedChunks, ...generatedChunks]
AllChunks(g) == g.cachedChunks \o GeneratedChunks(g)

\* res.json({chunks, totalChunks, cachedChunks, generatedChunks})
RespondSuccess(g) ==
  Respond(g, 200,
          [chunks |-> AllChunks(g),
           totalChunks |-> Len(AllChunks(g)),
           cachedChunks |-> Len(g.cachedChunks),
           generatedChunks |-> Len(GeneratedChunks(g))])

\* Promise.allSettled in the place of Promise.all: the run goes on once
\* every promise is settled, rejected or not.
AwaitAllSettled(g) ==
  IF g.pc # "await" THEN g
  ELSE IF \A i \in 1..Len(g.promises) :
            g.promises[i].state \in {"fulfilled", "rejected"}
       THEN IF g.sermonId # NoSermon
            THEN [g EXCEPT !.pc = "usage"]
            ELSE RespondSuccess(g)
  ELSE g

\* The reaction of `await Promise.all(generationPromises)` to the state of
\* the promises: it throws into the catch block as soon as one promise is
\* rejected, and goes on to the usage record once all are fulfilled. The
\* promises that are still pending go on after the response.
AwaitAll(g) ==
  IF g.pc # "await" THEN g
  ELSE IF \E i \in 1..Len(g.promises) : g.promises[i].state = "rejected"
       THEN RespondFailure(g, FirstRejection(g))
  ELSE IF \A i \in 1..Len(g.promises) : g.promises[i].state = "fulfilled"
       THEN IF g.sermonId # NoSermon
            THEN [g EXCEPT !.pc = "usage"]
            ELSE RespondSuccess(g)
  ELSE g

\* The promise of a chunk while synthesizeSpeech has not answered.
PendingPromise ==
  [state |-> "pending", audioContent |-> <<>>, timestamp |-> 0,
   reason |-> "none"]

\* chunksToGenerate.map(async (chunk) => ...): every synthesizeSpeech call is
\* issued at once when the loop over the chunks has ended.
Dispatch(g) ==
  IF g.idx <= Len(g.chunks) THEN g
  ELSE AwaitAll([g EXCEPT !.pc = "await",
                          !.promises = [i \in 1..Len(g.chunksToGenerate) |->
                                          PendingPromise]])

\* The entry of (text, voiceConfig) exists in coll and is younger than the
\* TTL at time t.
Fresh(coll, t, text, voiceConfig) ==
  /\ generateHash(text, voiceConfig) \in DOMAIN coll
  /\ t - coll[generateHash(text, voiceConfig)].timestamp < cacheTtl

\* The entry of (text, voiceConfig) exists in coll and is older than the TTL
\* at time t.
Expired(coll, t, text, voiceConfig) ==
  /\ generateHash(text, voiceConfig) \in DOMAIN coll
  /\ t - coll[generateHash(text, voiceConfig)].timestamp > cacheTtl

\* The arrival of a request without the text check.
GenStartNoTextCheck(r, text, language, sermonId) ==
  /\ gen[r].pc = "idle"
  /\ gen' = [gen EXCEPT ![r] =
       Dispatch([IdleReq EXCEPT !.text = text, !.language = language,
                                !.sermonId = sermonId,
                                !.pc = "lookup",
                                !.voiceConfig = getVoiceConfig(language),
                                !.chunks = splitTextIntoChunks(text)])]
  /\ UNCHANGED <<now, ttsCache, ttsUsage, silent, pre, sweep, sweepCommits, pureVars>>

\* The request arrives: the text check, getVoiceConfig, splitTextIntoChunks.
GenStart(r, text, language, sermonId) ==
  /\ gen[r].pc = "idle"
  /\ LET g0 == [IdleReq EXCEPT !.text = text, !.language = language,
                               !.sermonId = sermonId]
     IN gen' = [gen EXCEPT ![r] =
          IF text = <<>>
          THEN Respond(g0, 400, [error |-> "Text is required"])
          ELSE Dispatch([g0 EXCEPT !.pc = "lookup",
                                   !.voiceConfig = getVoiceConfig(language),
                                   !.chunks = splitTextIntoChunks(text)])]
  /\ UNCHANGED <<now, ttsCache, ttsUsage, silent, pre, sweep, sweepCommits, pureVars>>

\* One iteration of the loop over the chunks: getCachedAudio answers.
LookupStep(g, coll, t) ==
  LET chunk == g.chunks[g.idx]
      cachedAudio == getCachedAudio(coll, t, chunk, g.voiceConfig)
      h == [g EXCEPT !.idx = g.idx + 1,
                     !.sawExpired = g.sawExpired
                                    \/ Expired(coll, t, chunk, g.voiceConfig)]
  IN IF Truthy(cachedAudio)
     THEN [h EXCEPT !.cachedChunks = Append(g.cachedChunks,
                       [text |-> chunk, audioContent |-> cachedAudio,
                        cached |-> TRUE])]
     ELSE [h EXCEPT !.chunksToGenerate = Append(g.chunksToGenerate, chunk)]

\* A lookup that deletes the entry it finds expired.
GenLookupEvicting(r) ==
  /\ gen[r].pc = "lookup"
  /\ gen' = [gen EXCEPT ![r] =
       Dispatch(LookupStep(gen[r], ttsCache, now))]
  /\ ttsCache' =
       IF Expired(ttsCache, now, gen[r].chunks[gen[r].idx], gen[r].voiceConfig)
       THEN BatchDelete(ttsCache, {generateHash(gen[r].chunks[gen[r].idx],
                                                gen[r].voiceConfig)})
       ELSE ttsCache
  /\ UNCHANGED <<now, ttsUsage, silent, pre, sweep, sweepCommits, pureVars>>

GenLookup(r) ==
  /\ gen[r].pc = "lookup"
  /\ gen' = [gen EXCEPT ![r] =
       Dispatch(LookupStep(gen[r], ttsCache, now))]
  /\ UNCHANGED <<now, ttsCache, ttsUsage, silent, pre, sweep, sweepCommits, pureVars>>

\* The document read of getCachedAudio fails: nothing catches it before the
\* catch block of the route.
GenLookupFail(r) ==
  /\ gen[r].pc = "lookup"
  /\ gen' = [gen EXCEPT ![r] = RespondFailure(gen[r], "read")]
  /\ UNCHANGED <<now, ttsCache, ttsUsage, silent, pre, sweep, sweepCommits, pureVars>>

\* The answer of synthesizeSpeech resolving the promise of the chunk at once,
\* with no call of setCachedAudio.
SynthOkNoStore(r, i) ==
  /\ i \in 1..Len(gen[r].promises)
  /\ gen[r].promises[i].state = "pending"
  /\ gen' = [gen EXCEPT ![r] =
       AwaitAll([gen[r] EXCEPT !.promises[i] =
            [state |-> "fulfilled",
             audioContent |-> SynthesizedAudio(silent, gen[r].chunksToGenerate[i],
                                               gen[r].voiceConfig),
             timestamp |-> now,
             reason |-> "none"]])]
  /\ UNCHANGED <<now, ttsCache, ttsUsage, silent, pre, sweep, sweepCommits, pureVars>>

\* synthesizeSpeech answers for the i-th chunk to generate: the audio is
\* encoded and setCachedAudio is called, which reads Date.now().
SynthOk(r, i) ==
  /\ i \in 1..Len(gen[r].promises)
  /\ gen[r].promises[i].state = "pending"
  /\ gen' = [gen EXCEPT ![r] =
       [gen[r] EXCEPT !.promises[i] =
            [state |-> "storing",
             audioContent |-> SynthesizedAudio(silent, gen[r].chunksToGenerate[i],
                                               gen[r].voiceConfig),
             timestamp |-> now,
             reason |-> "none"]]]
  /\ UNCHANGED <<now, ttsCache, ttsUsage, silent, pre, sweep, sweepCommits, pureVars>>

\* synthesizeSpeech fails for the i-th chunk to generate: logged, rethrown.
SynthFail(r, i) ==
  /\ i \in 1..Len(gen[r].promises)
  /\ gen[r].promises[i].state = "pending"
  /\ gen' = [gen EXCEPT ![r] =
       AwaitAll([gen[r] EXCEPT !.promises[i].state = "rejected",
                               !.promises[i].reason = "synthesis"])]
  /\ UNCHANGED <<now, ttsCache, ttsUsage, silent, pre, sweep, sweepCommits, pureVars>>

\* The write of setCachedAudio is applied; the promise of the chunk is
\* fulfilled with {text, audioContent, cached: false}.
StoreCommit(r, i) ==
  /\ i \in 1..Len(gen[r].promises)
  /\ gen[r].promises[i].state = "storing"
  /\ LET chunk == gen[r].chunksToGenerate[i]
         p == gen[r].promises[i]
     IN ttsCache' = DocSet(ttsCache, generateHash(chunk, gen[r].voiceConfig),
                           CacheDoc(chunk, gen[r].voiceConfig, p.audioContent,
                                    p.timestamp))
  /\ gen' = [gen EXCEPT ![r] =
       AwaitAll([gen[r] EXCEPT !.promises[i].state = "fulfilled"])]
  /\ UNCHANGED <<now, ttsUsage, silent, pre, sweep, sweepCommits, pureVars>>

\* The write of setCachedAudio fails: the error is thrown inside the try of
\* the chunk's promise, logged and rethrown.
StoreFail(r, i) ==
  /\ i \in 1..Len(gen[r].promises)
  /\ gen[r].promises[i].state = "storing"
  /\ gen' = [gen EXCEPT ![r] =
       AwaitAll([gen[r] EXCEPT !.promises[i].state = "rejected",
                               !.promises[i].reason = "write"])]
  /\ UNCHANGED <<now, ttsCache, ttsUsage, silent, pre, sweep, sweepCommits, pureVars>>

\* A usage record whose cachedChunks is the number of generated chunks.
GenUsageCountingGenerated(r) ==
  /\ gen[r].pc = "usage"
  /\ ttsUsage' = Append(ttsUsage,
       [sermonId |-> gen[r].sermonId,
        chunksCount |-> Len(AllChunks(gen[r])),
        cachedChunks |-> Len(GeneratedChunks(gen[r])),
        totalCharacters |-> Len(gen[r].text),
        language |-> gen[r].language,
        timestamp |-> now])
  /\ gen' = [gen EXCEPT ![r] = RespondSuccess(gen[r])]
  /\ UNCHANGED <<now, ttsCache, silent, pre, sweep, sweepCommits, pureVars>>

\* db.collection("ttsUsage").add(...) is applied, then the response is sent.
GenUsage(r) ==
  /\ gen[r].pc = "usage"
  /\ ttsUsage' = Append(ttsUsage,
       [sermonId |-> gen[r].sermonId,
        chunksCount |-> Len(AllChunks(gen[r])),
        cachedChunks |-> Len(gen[r].cachedChunks),
        totalCharacters |-> Len(gen[r].text),
        language |-> gen[r].language,
        timestamp |-> now])
  /\ gen' = [gen EXCEPT ![r] = RespondSuccess(gen[r])]
  /\ UNCHANGED <<now, ttsCache, silent, pre, sweep, sweepCommits, pureVars>>

\* The add fails: the catch block answers 500.
GenUsageFail(r) ==
  /\ gen[r].pc = "usage"
  /\ gen' = [gen EXCEPT ![r] = RespondFailure(gen[r], "usage")]
  /\ UNCHANGED <<now, ttsCache, ttsUsage, silent, pre, sweep, sweepCommits, pureVars>>

\* The chunks for which the generate request g has called getCachedAudio and
\* got a miss (a falsy answer).
GenMisses(g) ==
  {g.chunks[j] : j \in 1..(g.idx - 1)}
    \ {g.cachedChunks[j].text : j \in 1..Len(g.cachedChunks)}

\* ------------------------------------------------------------------------
\* POST /api/admin/tts/pregenerate (src/server.js:687-748)
\* ------------------------------------------------------------------------

\* req.body.sermonIds and req.body.languages (default ["en"]).
PreSermonIds == {<<"s1">>}
PreLanguages == {<<Str_en>>}

IdlePre ==
  [pc |-> "idle", docs |-> <<>>, di |-> 1, languages |-> <<>>, li |-> 1,
   voiceConfig |-> voices[Str_en], chunks |-> <<>>, ci |-> 1,
   audioContent |-> <<>>, timestamp |-> 0, results |-> <<>>,
   resp |-> NoResponse,
   \* history, read by the properties only
   synthCalls |-> 0]

\* const content = sermon.translations?.en || sermon.content
SermonContent(sermon) ==
  IF sermon.translations.en # <<>> THEN sermon.translations.en
  ELSE sermon.content

PreSuccess(p) ==
  [sermonId |-> p.docs[p.di], language |-> p.languages[p.li],
   chunks |-> Len(p.chunks), status |-> "success"]

PreError(p) ==
  [sermonId |-> p.docs[p.di], language |-> p.languages[p.li],
   status |-> "error"]

\* The two loops over the documents and the languages, from the language
\* p.li of the document p.di up to the next call of synthesizeSpeech, or to
\* res.json({results}) when nothing is left.
RECURSIVE PreEnter(_)
PreEnter(p) ==
  IF p.di > Len(p.docs)
  THEN [p EXCEPT !.pc = "responded",
                 !.resp = [status |-> 200, body |-> [results |-> p.results]]]
  ELSE LET content == SermonContent(sermons[p.docs[p.di]])
       IN IF content = <<>> \/ p.li > Len(p.languages)
          THEN PreEnter([p EXCEPT !.di = p.di + 1, !.li = 1])
          ELSE LET q == [p EXCEPT !.voiceConfig = getVoiceConfig(p.languages[p.li]),
                                  !.chunks = splitTextIntoChunks(content),
                                  !.ci = 1]
               IN IF q.chunks = <<>>
                  THEN PreEnter([q EXCEPT !.results = Append(q.results, PreSuccess(q)),
                                          !.li = q.li + 1])
                  ELSE [q EXCEPT !.pc = "synth",
                                 !.synthCalls = q.synthCalls + 1]

\* The request arrives and the query on the sermons collection answers.
PreStart(sermonIds, languages) ==
  /\ pre.pc = "idle"
  /\ pre' = PreEnter([IdlePre EXCEPT
                        !.docs = SelectSeq(sermonIds, LAMBDA id : id \in DOMAIN sermons),
                        !.languages = languages])
  /\ UNCHANGED <<now, ttsCache, ttsUsage, silent, gen, sweep, sweepCommits, pureVars>>

\* The query on the sermons collection fails: the outer catch answers 500.
PreStartFail ==
  /\ pre.pc = "idle"
  /\ pre' = [IdlePre EXCEPT !.pc = "responded",
                            !.resp = [status |-> 500,
                                      body |-> [error |-> "Failed to pregenerate TTS"]]]
  /\ UNCHANGED <<now, ttsCache, ttsUsage, silent, gen, sweep, sweepCommits, pureVars>>

\* synthesizeSpeech answers for the chunk p.ci; setCachedAudio is called.
PreSynthOk ==
  /\ pre.pc = "synth"
  /\ pre' = [pre EXCEPT !.pc = "store",
                        !.audioContent = SynthesizedAudio(silent, pre.chunks[pre.ci],
                                                          pre.voiceConfig),
                        !.timestamp = now]
  /\ UNCHANGED <<now, ttsCache, ttsUsage, silent, gen, sweep, sweepCommits, pureVars>>

\* The write of setCachedAudio is applied: on to the next chunk, or to the
\* success entry of this (sermon, language) and the next language.
PreStoreCommit ==
  /\ pre.pc = "store"
  /\ ttsCache' = DocSet(ttsCache,
                        generateHash(pre.chunks[pre.ci], pre.voiceConfig),
                        CacheDoc(pre.chunks[pre.ci], pre.voiceConfig,
                                 pre.audioContent, pre.timestamp))
  /\ pre' = IF pre.ci < Len(pre.chunks)
            THEN [pre EXCEPT !.pc = "synth", !.ci = pre.ci + 1,
                             !.synthCalls = pre.synthCalls + 1]
            ELSE PreEnter([pre EXCEPT !.results = Append(pre.results, PreSuccess(pre)),
                                      !.li = pre.li + 1])
  /\ UNCHANGED <<now, ttsUsage, silent, gen, sweep, sweepCommits, pureVars>>

\* synthesizeSpeech or the write of setCachedAudio fails: the inner catch
\* records an error entry for this (sermon, language).
PreFail ==
  /\ pre.pc \in {"synth", "store"}
  /\ pre' = PreEnter([pre EXCEPT !.results = Append(pre.results, PreError(pre)),
                                 !.li = pre.li + 1])
  /\ UNCHANGED <<now, ttsCache, ttsUsage, silent, gen, sweep, sweepCommits, pureVars>>

\* The chunks for which the pregenerate request has called getCachedAudio
\* and got a miss: the handler calls it nowhere.
PreMisses(p) == {}

\* ------------------------------------------------------------------------
\* TTSCache.cleanupOldCache (src/server.js:428-442), run out of band
\* ------------------------------------------------------------------------

MaxSweeps == 1

IdleSweep == [pc |-> "idle", ttl |-> cacheTtl, snapshot |-> {}, returned |-> 0]

\* cleanupOldCache(ttl) is called: the query for the entries older than the
\* cutoff Date.now() - ttl answers.
cleanupOldCache(ttl) ==
  /\ sweep.pc = "idle"
  /\ sweepCommits < MaxSweeps
  /\ sweep' = [pc |-> "batch",
               ttl |-> ttl,
               snapshot |-> OldCacheQuery(ttsCache, now, ttl),
               returned |-> 0]
  /\ UNCHANGED <<now, ttsCache, ttsUsage, silent, gen, pre, sweepCommits, pureVars>>

\* The call with the default argument, ttl = TTS_CONFIG.cacheTtl.
SweepQuery == cleanupOldCache(cacheTtl)

\* batch.commit() is applied; the size of the snapshot is returned and the
\* locals of the call are gone.
SweepCommit ==
  /\ sweep.pc = "batch"
  /\ ttsCache' = BatchDelete(ttsCache, sweep.snapshot)
  /\ sweep' = [IdleSweep EXCEPT !.returned = Cardinality(sweep.snapshot)]
  /\ sweepCommits' = sweepCommits + 1
  /\ UNCHANGED <<now, ttsUsage, silent, gen, pre, pureVars>>

\* ------------------------------------------------------------------------
\* The clock
\* ------------------------------------------------------------------------

Tick ==
  /\ now < MaxTime
  /\ now' = now + 1
  /\ UNCHANGED <<ttsCache, ttsUsage, silent, gen, pre, sweep, sweepCommits, pureVars>>

\* ------------------------------------------------------------------------
\* The server
\* ------------------------------------------------------------------------

Init ==
  /\ now = 0
  /\ ttsCache = <<>>
  /\ ttsUsage = <<>>
  /\ silent \in BOOLEAN
  /\ gen = [r \in Reqs |-> IdleReq]
  /\ pre = IdlePre
  /\ sweep = IdleSweep
  /\ sweepCommits = 0
  /\ chunkerText = <<>>
  /\ chunkerOut = NotRun
  /\ hashArgs = NoHashArgs
  /\ hashOut = NoHashOut
  /\ voiceArg = <<>>
  /\ voiceOut = NoVoiceOut

\* One generate request, the pregenerate request of an administrator, the
\* out-of-band sweep and the clock, interleaved in every way.
Next ==
  \/ \E text \in Texts, language \in Languages,
        sermonId \in SermonIds \cup {NoSermon} :
       GenStart(1, text, language, sermonId)
  \/ \E r \in Reqs : GenLookup(r)
  \/ \E r \in Reqs : GenLookupFail(r)
  \/ \E r \in Reqs, i \in 1..2 : SynthOk(r, i)
  \/ \E r \in Reqs, i \in 1..2 : SynthFail(r, i)
  \/ \E r \in Reqs, i \in 1..2 : StoreCommit(r, i)
  \/ \E r \in Reqs, i \in 1..2 : StoreFail(r, i)
  \/ \E r \in Reqs : GenUsage(r)
  \/ \E r \in Reqs : GenUsageFail(r)
  \/ \E sermonIds \in PreSermonIds, languages \in PreLanguages :
       PreStart(sermonIds, languages)
  \/ PreStartFail
  \/ PreSynthOk
  \/ PreStoreCommit
  \/ PreFail
  \/ SweepQuery
  \/ SweepCommit
  \/ Tick

Spec == Init /\ [][Next]_vars

\* ------------------------------------------------------------------------
\* Two generate requests in sequence
\* ------------------------------------------------------------------------

\* A request arrives when the requests before it have been answered.
Arrive(r, text, language, sermonId) ==
  /\ \A q \in Reqs : q < r => gen[q].pc = "responded"
  /\ GenStart(r, text, language, sermonId)

NextTwice ==
  \/ \E r \in Reqs, text \in Texts, sermonId \in SermonIds \cup {NoSermon} :
       Arrive(r, text, Str_enUS, sermonId)
  \/ \E r \in Reqs : GenLookup(r)
  \/ \E r \in Reqs : GenLookupFail(r)
  \/ \E r \in Reqs, i \in 1..2 : SynthOk(r, i)
  \/ \E r \in Reqs, i \in 1..2 : SynthFail(r, i)
  \/ \E r \in Reqs, i \in 1..2 : StoreCommit(r, i)
  \/ \E r \in Reqs, i \in 1..2 : StoreFail(r, i)
  \/ \E r \in Reqs : GenUsage(r)
  \/ \E r \in Reqs : GenUsageFail(r)
  \/ SweepQuery
  \/ SweepCommit
  \/ Tick

SpecTwice == Init /\ [][NextTwice]_vars

\* ------------------------------------------------------------------------
\* The chunker on every text of bounded length
\* ------------------------------------------------------------------------

InitChunker ==
  /\ chunkerText \in StringsUpTo(MaxTextLen)
  /\ chunkerOut = NotRun
  /\ hashArgs = NoHashArgs
  /\ hashOut = NoHashOut
  /\ voiceArg = <<>>
  /\ voiceOut = NoVoiceOut
  /\ now = 0
  /\ ttsCache = <<>>
  /\ ttsUsage = <<>>
  /\ silent = FALSE
  /\ gen = [r \in Reqs |-> IdleReq]
  /\ pre = IdlePre
  /\ sweep = IdleSweep
  /\ sweepCommits = 0

RunChunker ==
  /\ chunkerOut = NotRun
  /\ chunkerOut' = [ran |-> TRUE, chunks |-> splitTextIntoChunks(chunkerText)]
  /\ UNCHANGED <<chunkerText, hashArgs, hashOut, voiceArg, voiceOut, serverVars>>

NextChunker == RunChunker

SpecChunker == InitChunker /\ [][NextChunker]_vars

\* ------------------------------------------------------------------------
\* A generate request after the pregenerate request of an administrator
\* ------------------------------------------------------------------------

\* The generate request arrives when the pregenerate request has been
\* answered, in a language of the pregenerate request.
ArriveAfterPregenerate(text, language, sermonId) ==
  /\ pre.pc = "responded"
  /\ GenStart(1, text, language, sermonId)

NextWarm ==
  \/ \E sermonIds \in PreSermonIds, languages \in PreLanguages :
       PreStart(sermonIds, languages)
  \/ PreStartFail
  \/ PreSynthOk
  \/ PreStoreCommit
  \/ PreFail
  \/ \E text \in Texts, languages \in PreLanguages,
        sermonId \in SermonIds \cup {NoSermon} :
       \E k \in 1..Len(languages) :
         ArriveAfterPregenerate(text, languages[k], sermonId)
  \/ GenLookup(1)
  \/ GenLookupFail(1)
  \/ \E i \in 1..2 : SynthOk(1, i)
  \/ \E i \in 1..2 : SynthFail(1, i)
  \/ \E i \in 1..2 : StoreCommit(1, i)
  \/ \E i \in 1..2 : StoreFail(1, i)
  \/ GenUsage(1)
  \/ GenUsageFail(1)
  \/ Tick

SpecWarm == Init /\ [][NextWarm]_vars

\* ------------------------------------------------------------------------
\* Two generate requests for the same text and language at the same time
\* ------------------------------------------------------------------------

\* A request arrives while the other slot is free or serves the same text.
ArriveSame(r, text) ==
  /\ \A q \in Reqs \ {r} : gen[q].pc = "idle" \/ gen[q].text = text
  /\ GenStart(r, text, Str_enUS, NoSermon)

NextRace ==
  \/ \E r \in Reqs, text \in Texts \ {<<>>} : ArriveSame(r, text)
  \/ \E r \in Reqs : GenLookup(r)
  \/ \E r \in Reqs : GenLookupFail(r)
  \/ \E r \in Reqs, i \in 1..2 : SynthOk(r, i)
  \/ \E r \in Reqs, i \in 1..2 : SynthFail(r, i)
  \/ \E r \in Reqs, i \in 1..2 : StoreCommit(r, i)
  \/ \E r \in Reqs, i \in 1..2 : StoreFail(r, i)
  \/ Tick

SpecRace == Init /\ [][NextRace]_vars

\* ------------------------------------------------------------------------
\* One generate request on texts with repeated and with many segments
\* ------------------------------------------------------------------------

Txt_aa_aa == <<"a", "a", ".", " ", "a", "a", ".">>
Txt_dot_aa_aa == <<".", " ", "a", "a", ".", " ", "a", "a", ".">>

\* req.body.text: one segment, the same segment twice, three segments of
\* which two are the same.
FanOutTexts == {Txt_aa, Txt_aa_aa, Txt_dot_aa_aa}

\* The largest number of segments of a text of FanOutTexts.
LongestRun ==
  CHOOSE n \in 1..9 :
    /\ \E text \in FanOutTexts : Len(splitTextIntoChunks(text)) = n
    /\ \A text \in FanOutTexts : Len(splitTextIntoChunks(text)) <= n

NextFanOut ==
  \/ \E text \in FanOutTexts, sermonId \in SermonIds \cup {NoSermon} :
       GenStart(1, text, Str_enUS, sermonId)
  \/ GenLookup(1)
  \/ GenLookupFail(1)
  \/ \E i \in 1..LongestRun : SynthOk(1, i)
  \/ \E i \in 1..LongestRun : SynthFail(1, i)
  \/ \E i \in 1..LongestRun : StoreCommit(1, i)
  \/ \E i \in 1..LongestRun : StoreFail(1, i)
  \/ GenUsage(1)
  \/ GenUsageFail(1)
  \/ Tick

SpecFanOut == Init /\ [][NextFanOut]_vars

\* The same request when every awaited call to the document store answers,
\* with a result or with an error. Nothing in the handler makes
\* synthesizeSpeech answer, so no fairness is stated for its answers.
StoreAnswers ==
  /\ WF_vars(GenLookup(1) \/ GenLookupFail(1))
  /\ \A i \in 1..LongestRun : WF_vars(StoreCommit(1, i) \/ StoreFail(1, i))
  /\ WF_vars(GenUsage(1) \/ GenUsageFail(1))

SpecFanOutLive == SpecFanOut /\ StoreAnswers

\* ------------------------------------------------------------------------
\* cleanupOldCache alone, on every collection the stores can have left
\* ------------------------------------------------------------------------

\* The argument ttl of cleanupOldCache.
SweepTtls == {0, cacheTtl, cacheTtl + 1}

\* The (text, voiceConfig) pairs setCachedAudio has been called with.
StoredPairs ==
  {[text |-> text, voiceConfig |-> voices[l]] :
     text \in {Txt_aa, <<".">>}, l \in {Str_en, Str_es}}

\* The collections that calls of setCachedAudio up to time t leave behind:
\* for each pair, no entry or the entry of a call made at some time <= t.
StoredCollections(t) ==
  UNION {
    {[h \in {generateHash(k.text, k.voiceConfig) : k \in D} |->
        LET k == CHOOSE k \in D : generateHash(k.text, k.voiceConfig) = h
        IN CacheDoc(k.text, k.voiceConfig,
                    SynthesizedAudio(FALSE, k.text, k.voiceConfig), ts[k])] :
       ts \in [D -> 0..t]} :
    D \in SUBSET StoredPairs}

InitSweep ==
  /\ now \in 0..MaxTime
  /\ ttsCache \in StoredCollections(now)
  /\ ttsUsage = <<>>
  /\ silent = FALSE
  /\ gen = [r \in Reqs |-> IdleReq]
  /\ pre = IdlePre
  /\ sweep = IdleSweep
  /\ sweepCommits = 0
  /\ chunkerText = <<>>
  /\ chunkerOut = NotRun
  /\ hashArgs = NoHashArgs
  /\ hashOut = NoHashOut
  /\ voiceArg = <<>>
  /\ voiceOut = NoVoiceOut

NextSweep ==
  \/ \E ttl \in SweepTtls : cleanupOldCache(ttl)
  \/ SweepCommit
  \/ Tick

SpecSweep == InitSweep /\ [][NextSweep]_vars

\* ------------------------------------------------------------------------
\* The cache key: a store followed by a lookup, on every pair of inputs
\* ------------------------------------------------------------------------

\* Longest text of Alphabet given to generateHash in SpecHash.
MaxHashTextLen == 2

\* The texts: every short text, so that texts differing by whitespace only
\* are among them, and texts that are themselves the JSON of a voice.
HashTexts ==
  StringsUpTo(MaxHashTextLen) \cup {JSONstringify(voices[l]) : l \in DOMAIN voices}

\* The voice configurations getVoiceConfig returns.
HashVoices == {voices[l] : l \in DOMAIN voices}

InitHash ==
  /\ hashArgs \in [text1 : HashTexts, voiceConfig1 : HashVoices,
                    text2 : HashTexts, voiceConfig2 : HashVoices]
  /\ hashOut = NoHashOut
  /\ now = 0
  /\ ttsCache = <<>>
  /\ ttsUsage = <<>>
  /\ silent = FALSE
  /\ gen = [r \in Reqs |-> IdleReq]
  /\ pre = IdlePre
  /\ sweep = IdleSweep
  /\ sweepCommits = 0
  /\ chunkerText = <<>>
  /\ chunkerOut = NotRun
  /\ voiceArg = <<>>
  /\ voiceOut = NoVoiceOut

\* setCachedAudio(text1, voiceConfig1, audio) on the empty collection, then
\* getCachedAudio(text2, voiceConfig2) at the same instant.
StoreThenLookup ==
  /\ ~hashOut.ran
  /\ LET a == hashArgs
         hash1 == generateHash(a.text1, a.voiceConfig1)
         stored == DocSet(ttsCache, hash1,
                          CacheDoc(a.text1, a.voiceConfig1,
                                   SynthesizedAudio(silent, a.text1, a.voiceConfig1),
                                   now))
     IN /\ ttsCache' = stored
        /\ hashOut' = [ran |-> TRUE,
                       hash1 |-> hash1,
                       hash2 |-> generateHash(a.text2, a.voiceConfig2),
                       cachedAudio |-> getCachedAudio(stored, now, a.text2,
                                                      a.voiceConfig2)]
  /\ UNCHANGED <<now, ttsUsage, silent, gen, pre, sweep, sweepCommits,
                 chunkerText, chunkerOut, hashArgs, voiceArg, voiceOut>>

NextHash == StoreThenLookup

SpecHash == InitHash /\ [][NextHash]_vars

\* ------------------------------------------------------------------------
\* The voice resolver on every language tag of a bounded set
\* ------------------------------------------------------------------------

\* Longest generated language tag.
MaxTagLen == 3

TagAlphabet == {"e", "n", "s", "-"}

\* The language tags: every short tag of TagAlphabet (the empty tag, en, es,
\* en-, -en, unsupported tags), the other tags of the table, a tag with a
\* region and tags that name a member of Object.prototype.
VoiceTags ==
  UNION {[1..k -> TagAlphabet] : k \in 0..MaxTagLen}
    \cup {Str_fr, Str_zh, Str_enUS, Str_constructor, Str_toString,
          Str_toString \o <<"-", "U", "S">>}

InitVoice ==
  /\ voiceArg \in VoiceTags
  /\ voiceOut = NoVoiceOut
  /\ now = 0
  /\ ttsCache = <<>>
  /\ ttsUsage = <<>>
  /\ silent = FALSE
  /\ gen = [r \in Reqs |-> IdleReq]
  /\ pre = IdlePre
  /\ sweep = IdleSweep
  /\ sweepCommits = 0
  /\ chunkerText = <<>>
  /\ chunkerOut = NotRun
  /\ hashArgs = NoHashArgs
  /\ hashOut = NoHashOut

RunVoice ==
  /\ ~voiceOut.ran
  /\ voiceOut' = [ran |-> TRUE, voiceConfig |-> getVoiceConfig(voiceArg)]
  /\ UNCHANGED <<voiceArg, chunkerText, chunkerOut, hashArgs, hashOut, serverVars>>

NextVoice == RunVoice

SpecVoice == InitVoice /\ [][NextVoice]_vars

\* ------------------------------------------------------------------------
\* Properties
\* ------------------------------------------------------------------------

TextsOf(cs) == [i \in 1..Len(cs) |-> cs[i].text]

AudioOf(cs) == [i \in 1..Len(cs) |-> cs[i].audioContent]

Count(seq, x) == Cardinality({i \in 1..Len(seq) : seq[i] = x})

\* a is b with some elements left out.
RECURSIVE IsSubsequence(_, _)
IsSubsequence(a, b) ==
  IF a = <<>> THEN TRUE
  ELSE IF b = <<>> THEN FALSE
  ELSE IF Head(a) = Head(b) THEN IsSubsequence(Tail(a), Tail(b))
  ELSE IsSubsequence(a, Tail(b))

\* The step of request r in which getCachedAudio answers for a chunk.
LookupAnswered(r) ==
  /\ gen[r].pc = "lookup"
  /\ gen'[r].idx = gen[r].idx + 1

\* The step of request r in which the write of setCachedAudio for the i-th
\* chunk to generate is applied.
StoreApplied(r, i) ==
  /\ i \in 1..Len(gen[r].promises)
  /\ gen[r].promises[i].state = "storing"
  /\ gen'[r].promises[i].state = "fulfilled"

\* The step of the pregenerate request in which the write of setCachedAudio
\* for the current chunk is applied.
PreStoreApplied ==
  /\ pre.pc = "store"
  /\ \/ pre'.pc = "synth" /\ pre'.ci = pre.ci + 1
     \/ /\ Len(pre'.results) = Len(pre.results) + 1
        /\ pre'.results[Len(pre'.results)].status = "success"

\* C1: when the same text and language are requested twice in sequence, both
\* requests succeed, no sweep has committed and the second request is answered
\* within the TTL of the first, the second request makes no call to
\* synthesizeSpeech, marks every chunk as cached and returns the audio the
\* first request returned.
C1_SecondRequestFromCache ==
  ( /\ gen[1].resp.status = 200
    /\ gen[2].resp.status = 200
    /\ gen[2].text = gen[1].text
    /\ gen[2].language = gen[1].language
    /\ sweepCommits = 0
    /\ now < cacheTtl )
  => /\ gen[2].promises = <<>>
     /\ \A i \in 1..Len(gen[2].resp.body.chunks) :
          gen[2].resp.body.chunks[i].cached
     /\ AudioOf(gen[2].resp.body.chunks) = AudioOf(gen[1].resp.body.chunks)

\* C2 on the generate route: a lookup that finds a fresh entry for the chunk
\* takes the entry's audio, whatever it is, and does not queue the chunk for
\* synthesis.
C2_GenerateUsesFreshEntry ==
  \A r \in Reqs :
    ( /\ LookupAnswered(r)
      /\ Fresh(ttsCache, now, gen[r].chunks[gen[r].idx], gen[r].voiceConfig) )
    => /\ gen'[r].chunksToGenerate = gen[r].chunksToGenerate
       /\ gen'[r].cachedChunks =
            Append(gen[r].cachedChunks,
                   [text |-> gen[r].chunks[gen[r].idx],
                    audioContent |->
                      ttsCache[generateHash(gen[r].chunks[gen[r].idx],
                                            gen[r].voiceConfig)].audioContent,
                    cached |-> TRUE])

\* C2 on the pregenerate route: synthesizeSpeech is not called for a chunk
\* whose entry is fresh when the call would be made.
C2_PregenerateUsesFreshEntry ==
  pre'.synthCalls > pre.synthCalls
  => ~Fresh(ttsCache', now', pre'.chunks[pre'.ci], pre'.voiceConfig)

\* C2: in the generate route and in the pregenerate route, a chunk whose cache
\* entry is fresh is never synthesized and the cached audio is the one used,
\* for every stored audio, the empty one included.
C2_FreshEntryNeverSynthesized ==
  [][C2_GenerateUsesFreshEntry /\ C2_PregenerateUsesFreshEntry]_vars

\* C3: a lookup that finds an entry older than the TTL (age cacheTtl + 1)
\* reports a miss and leaves the entry in the collection; a sweep whose query
\* runs while the entry has that age holds it in its snapshot, and the entries
\* of the snapshot are absent once the sweep has committed.
C3_StaleMissThenSwept ==
  [][ /\ \A r \in Reqs :
           ( /\ LookupAnswered(r)
             /\ Expired(ttsCache, now, gen[r].chunks[gen[r].idx],
                        gen[r].voiceConfig) )
           => /\ gen'[r].chunksToGenerate =
                   Append(gen[r].chunksToGenerate, gen[r].chunks[gen[r].idx])
              /\ gen'[r].cachedChunks = gen[r].cachedChunks
              /\ generateHash(gen[r].chunks[gen[r].idx], gen[r].voiceConfig)
                   \in DOMAIN ttsCache'
      /\ (sweep.pc = "idle" /\ sweep'.pc = "batch")
           => \A h \in DOMAIN ttsCache :
                now - ttsCache[h].timestamp >= cacheTtl + 1
                => h \in sweep'.snapshot
      /\ (sweep.pc = "batch" /\ sweep'.pc = "idle")
           => \A h \in sweep.snapshot : h \notin DOMAIN ttsCache'
    ]_vars

\* A request missed an entry older than the TTL, the chunk is still waiting
\* for its synthesis, and a sweep has removed the entry since.
C3_Witness ==
  /\ gen[1].sawExpired
  /\ sweep.pc = "idle"
  /\ sweep.returned > 0
  /\ \E i \in 1..Len(gen[1].promises) :
       /\ gen[1].promises[i].state = "pending"
       /\ generateHash(gen[1].chunksToGenerate[i], gen[1].voiceConfig)
            \notin DOMAIN ttsCache

\* C4: the chunks of a successful response are in the order of
\* splitTextIntoChunks(text): the i-th returned chunk is the i-th segment.
C4_ResponseInChunkOrder ==
  \A r \in Reqs :
    gen[r].resp.status = 200
    => TextsOf(gen[r].resp.body.chunks) = gen[r].chunks

\* C5: in a successful response the chunks that were synthesized in this run
\* appear in the order of splitTextIntoChunks(text), each with the audio of
\* its own text, in whatever order the synthesizeSpeech calls answered.
C5_GeneratedInChunkOrder ==
  \A r \in Reqs :
    gen[r].resp.status = 200
    => LET generated == SelectSeq(gen[r].resp.body.chunks,
                                  LAMBDA c : ~c.cached)
       IN /\ IsSubsequence(TextsOf(generated), gen[r].chunks)
          /\ \A i \in 1..Len(generated) :
               generated[i].audioContent =
                 SynthesizedAudio(silent, generated[i].text, gen[r].voiceConfig)

\* A successful run of two synthesized chunks in which synthesizeSpeech
\* answered for the second chunk before it answered for the first.
C5_Witness ==
  /\ gen[1].resp.status = 200
  /\ Len(gen[1].promises) = 2
  /\ gen[1].promises[2].timestamp < gen[1].promises[1].timestamp

\* A segment with no whitespace in it.
SingleWord(segment) == \A i \in 1..Len(segment) : ~IsSpace(segment[i])

\* C6: every segment of splitTextIntoChunks(text) is at most maxChunkSize
\* long, the joining spaces counted, unless it is a single word that is
\* longer than maxChunkSize by itself.
C6_SegmentWithinBudget ==
  chunkerOut.ran
  => \A i \in 1..Len(chunkerOut.chunks) :
       \/ Len(chunkerOut.chunks[i]) <= maxChunkSize
       \/ SingleWord(chunkerOut.chunks[i])

\* C7: a failed read of the cache during the lookups of a run does not fail
\* the run: no run is answered 500 with the read error.
C7_LookupFailureIsMiss ==
  \A r \in Reqs : ~(gen[r].resp.status = 500 /\ gen[r].caught = "read")

\* C8: a failed write of the cache after a successful synthesis does not fail
\* the run: no run is answered 500 with the write error.
C8_StoreFailureSwallowed ==
  \A r \in Reqs : ~(gen[r].resp.status = 500 /\ gen[r].caught = "write")

\* C9: a run that has answered either succeeded with every promise fulfilled
\* and one returned chunk per segment of the text, or failed with a body that
\* holds an error and no chunk; a run in which a synthesis failed has failed.
C9_NoPartialSuccess ==
  \A r \in Reqs :
    gen[r].pc = "responded"
    => \/ /\ gen[r].resp.status = 200
          /\ \A i \in 1..Len(gen[r].promises) :
               gen[r].promises[i].state = "fulfilled"
          /\ Len(gen[r].resp.body.chunks) = Len(gen[r].chunks)
          /\ \A j \in 1..Len(gen[r].chunks) :
               Count(TextsOf(gen[r].resp.body.chunks), gen[r].chunks[j])
                 = Count(gen[r].chunks, gen[r].chunks[j])
       \/ /\ gen[r].resp.status \in {400, 500}
          /\ DOMAIN gen[r].resp.body = {"error"}

\* A run answered 500 after the synthesis of one chunk failed while the
\* other chunk was synthesized and stored.
C9_Witness ==
  /\ gen[1].resp.status = 500
  /\ gen[1].caught = "synthesis"
  /\ \E i \in 1..Len(gen[1].promises) : gen[1].promises[i].state = "fulfilled"

C11_SweepRemovesExactlyOld ==
  [][ /\ (sweep.pc = "idle" /\ sweep'.pc = "batch")
           => sweep'.snapshot =
                {h \in DOMAIN ttsCache :
                   ttsCache[h].timestamp < now - sweep'.ttl}
      /\ (sweep.pc = "batch" /\ sweep'.pc = "idle")
           => /\ DOMAIN ttsCache' = DOMAIN ttsCache \ sweep.snapshot
              /\ \A h \in DOMAIN ttsCache' : ttsCache'[h] = ttsCache[h]
              /\ sweep.snapshot \subseteq DOMAIN ttsCache
              /\ sweep'.returned =
                   Cardinality(DOMAIN ttsCache \ DOMAIN ttsCache')
    ]_vars

\* A sweep has removed some entries and left others.
C11_Witness ==
  /\ sweepCommits = 1
  /\ sweep.pc = "idle"
  /\ sweep.returned > 0
  /\ ttsCache # <<>>
  /\ gen[1].pc = "idle"
  /\ pre.pc = "idle"

\* C12: whatever stores and lookups run beside a sweep, every entry the
\* commit of the sweep removes is stale at that moment: an entry that a store
\* wrote again with a fresh timestamp after the query of the sweep stays.
C12_SweepRemovesOnlyStale ==
  [][ (sweep.pc = "batch" /\ sweep'.pc = "idle")
        => \A h \in DOMAIN ttsCache \ DOMAIN ttsCache' :
             ttsCache[h].timestamp < now - sweep.ttl ]_vars

\* The times at which the runs called setCachedAudio for the chunk.
StoreTimesOf(chunk) ==
  UNION {{gen[r].promises[i].timestamp :
            i \in {j \in 1..Len(gen[r].promises) :
                     /\ gen[r].chunksToGenerate[j] = chunk
                     /\ gen[r].promises[j].state = "fulfilled"}} :
         r \in Reqs}

\* The two runs have answered, for the same text, and no collaborator failed
\* in either.
BothRunsAnswered ==
  /\ \A r \in Reqs : gen[r].pc = "responded" /\ gen[r].caught = "none"
  /\ gen[1].text = gen[2].text
  /\ gen[1].voiceConfig = gen[2].voiceConfig

\* C13, the outcome: once two runs for the same text and voice have answered
\* without a failure of the store or of the synthesis, both answered 200
\* with one chunk per segment, and the collection holds for each segment one
\* entry, with the audio of the segment and the time of a store of one of
\* the two runs, and no other entry.
C13_BothSucceedOneEntryEach ==
  BothRunsAnswered
  => /\ \A r \in Reqs :
          /\ gen[r].resp.status = 200
          /\ Len(gen[r].resp.body.chunks) = Len(gen[r].chunks)
          /\ \A j \in 1..Len(gen[r].chunks) :
               Count(TextsOf(gen[r].resp.body.chunks), gen[r].chunks[j])
                 = Count(gen[r].chunks, gen[r].chunks[j])
     /\ DOMAIN ttsCache =
          {generateHash(gen[1].chunks[j], gen[1].voiceConfig) :
             j \in 1..Len(gen[1].chunks)}
     /\ \A j \in 1..Len(gen[1].chunks) :
          LET chunk == gen[1].chunks[j]
              entry == ttsCache[generateHash(chunk, gen[1].voiceConfig)]
          IN /\ entry.audioContent =
                  SynthesizedAudio(silent, chunk, gen[1].voiceConfig)
             /\ entry.timestamp \in StoreTimesOf(chunk)

\* C13, the writes: every applied store leaves the document of its own call
\* as the entry of the key, whatever was there (the last writer wins).
C13_LastWriterWins ==
  \A r \in Reqs, i \in 1..2 :
    StoreApplied(r, i)
    => ttsCache'[generateHash(gen[r].chunksToGenerate[i], gen[r].voiceConfig)]
         = CacheDoc(gen[r].chunksToGenerate[i], gen[r].voiceConfig,
                    gen[r].promises[i].audioContent,
                    gen[r].promises[i].timestamp)

\* C13: after any interleaving of two concurrent runs for the same text and
\* voice that start with an empty cache, both runs complete successfully with
\* a payload for every segment and the cache holds exactly one entry per
\* segment, written by one of the two runs, the last writer winning.
C13_ConcurrentRunsLastWriterWins ==
  []C13_BothSucceedOneEntryEach /\ [][C13_LastWriterWins]_vars

\* Both runs missed the same chunk on an empty cache, both synthesized it and
\* both stored it, at different times; both have answered 200.
C13_Witness ==
  /\ BothRunsAnswered
  /\ gen[1].resp.status = 200
  /\ gen[2].resp.status = 200
  /\ Len(gen[1].promises) = 2
  /\ Len(gen[2].promises) = 2
  /\ gen[1].promises[2].timestamp # gen[2].promises[2].timestamp

\* The looked-up text and voice are the stored text and voice.
SameInputs ==
  /\ hashArgs.text1 = hashArgs.text2
  /\ hashArgs.voiceConfig1 = hashArgs.voiceConfig2

\* C14: after a store under (text1, voiceConfig1), a lookup for
\* (text2, voiceConfig2) returns a payload exactly when the text and the
\* voice are the same, and then the payload stored; the two keys are equal
\* exactly when the inputs are, so that a difference of whitespace in the
\* text or a different voice addresses another entry.
C14_HitOnlyForSameTextAndVoice ==
  hashOut.ran
  => /\ (hashOut.hash1 = hashOut.hash2) <=> SameInputs
     /\ (hashOut.cachedAudio # Null) <=> SameInputs
     /\ hashOut.cachedAudio # Null
          => hashOut.cachedAudio =
               SynthesizedAudio(silent, hashArgs.text1, hashArgs.voiceConfig1)

\* A lookup missed for a text that differs from the stored one by a trailing
\* space only, under the same voice.
C14_Witness ==
  /\ hashOut.ran
  /\ hashArgs.text1 = <<"a">>
  /\ hashArgs.text2 = <<"a", " ">>
  /\ hashArgs.voiceConfig1 = hashArgs.voiceConfig2
  /\ hashOut.cachedAudio = Null
  /\ DOMAIN ttsCache = {hashOut.hash1}

\* The part of the tag before its first "-" (the whole tag without one).
PrimarySubtag(tag) ==
  LET dashes == {i \in 1..Len(tag) : tag[i] = "-"}
  IN IF dashes = {} THEN tag
     ELSE SubSeq(tag, 1, (CHOOSE i \in dashes : \A j \in dashes : i <= j) - 1)

\* C15: for every language tag getVoiceConfig returns the entry of the table
\* for the primary subtag when the subtag is en, es, fr or zh, and the
\* English entry for every other tag.
C15_VoiceOfPrimarySubtagOrEnglish ==
  voiceOut.ran
  => voiceOut.voiceConfig =
       IF PrimarySubtag(voiceArg) \in {Str_en, Str_es, Str_fr, Str_zh}
       THEN voices[PrimarySubtag(voiceArg)]
       ELSE voices[Str_en]

\* C16: splitTextIntoChunks called with the empty text returns no segment.
C16_EmptyTextNoSegments ==
  (chunkerOut.ran /\ chunkerText = <<>>) => chunkerOut.chunks = <<>>

\* A request without text has arrived in slot r.
NoTextRequest(r) == gen[r].pc # "idle" /\ gen[r].text = <<>>

\* C17, the state of a request without text: answered 400 at its arrival,
\* with no chunk computed, no lookup made, no synthesis dispatched and no
\* usage record added.
C17_NoTextAnswered400 ==
  \A r \in Reqs :
    NoTextRequest(r)
    => /\ gen[r].pc = "responded"
       /\ gen[r].resp.status = 400
       /\ DOMAIN gen[r].resp.body = {"error"}
       /\ gen[r].chunks = <<>>
       /\ gen[r].idx = 1
       /\ gen[r].cachedChunks = <<>>
       /\ gen[r].chunksToGenerate = <<>>
       /\ gen[r].promises = <<>>
       /\ ttsUsage = <<>>

\* C17, the steps after the answer: the request takes no further step, no
\* store is applied for it and no usage record is added.
C17_NoTextNoFurtherStep ==
  \A r \in Reqs :
    NoTextRequest(r)
    => /\ gen'[r] = gen[r]
       /\ \A i \in 1..2 : ~StoreApplied(r, i)
       /\ ttsUsage' = ttsUsage

\* C17: a generate request without text fails before any other step: no
\* chunking, no cache lookup, no synthesis, no cache store and no usage
\* record happens for it.
C17_NoTextFailsBeforeAnyStep ==
  []C17_NoTextAnswered400 /\ [][C17_NoTextNoFurtherStep]_vars

\* A request without text was answered 400 while the pregenerate request
\* went on to fill the cache.
C17_Witness ==
  /\ NoTextRequest(1)
  /\ gen[1].resp.status = 400
  /\ ttsCache # <<>>

\* C18: every cache hit of a run is followed by incrementAccessCount for the
\* hit key. Once the second of two successful requests in sequence has
\* answered, with nothing left running, no entry overwritten since its hits
\* and no sweep committed, the entry of each chunk it took from the cache has
\* been counted at least once.
C18_HitsAreCounted ==
  ( /\ gen[1].resp.status = 200
    /\ gen[2].resp.status = 200
    /\ sweepCommits = 0 )
  => \A i \in 1..Len(gen[2].cachedChunks) :
       LET hash == generateHash(gen[2].cachedChunks[i].text, gen[2].voiceConfig)
       IN hash \in DOMAIN ttsCache => ttsCache[hash].accessedCount >= 1

\* C19: within one run synthesizeSpeech is called at most once per key: no
\* two of the calls dispatched by a run are for the same chunk and voice.
C19_OneSynthesisPerFingerprint ==
  \A r \in Reqs :
    \A i \in 1..Len(gen[r].promises), j \in 1..Len(gen[r].promises) :
      i # j => generateHash(gen[r].chunksToGenerate[i], gen[r].voiceConfig)
                 # generateHash(gen[r].chunksToGenerate[j], gen[r].voiceConfig)

\* The calls of synthesizeSpeech of run r that have not answered yet.
InFlight(r) ==
  Cardinality({i \in 1..Len(gen[r].promises) :
                 gen[r].promises[i].state = "pending"})

\* A ceiling that does not grow with the number of segments: one below the
\* largest number of segments a run of the model has to synthesize.
FanOutCeiling == LongestRun - 1

\* C20: the number of synthesizeSpeech calls a run has in flight at the same
\* time never exceeds a ceiling that is independent of the number of
\* segments to synthesize.
C20_InFlightBelowCeiling ==
  \A r \in Reqs : InFlight(r) <= FanOutCeiling

\* C21: every run that has started eventually answers, with a success or
\* with a failure, also when a call of synthesizeSpeech never answers.
C21_RunEventuallyAnswers ==
  \A r \in Reqs : (gen[r].pc # "idle") ~> (gen[r].pc = "responded")

\* C22 on the generate route: every applied store is for a chunk the same
\* request looked up before and missed.
C22_GenerateStoresAfterMiss ==
  \A r \in Reqs, i \in 1..2 :
    StoreApplied(r, i) => gen[r].chunksToGenerate[i] \in GenMisses(gen[r])

\* C22 on the pregenerate route: every applied store is for a chunk the same
\* request looked up before and missed.
C22_PregenerateStoresAfterMiss ==
  PreStoreApplied => pre.chunks[pre.ci] \in PreMisses(pre)

\* C22: in every request path a store for a key comes after a lookup for
\* that key, in the same request, that returned a miss.
C22_StoreOnlyAfterMiss ==
  [][C22_GenerateStoresAfterMiss /\ C22_PregenerateStoresAfterMiss]_vars

\* The step of request r in which synthesizeSpeech answers with audio for the
\* i-th chunk to generate.
SynthSucceeded(r, i) ==
  /\ i \in 1..Len(gen[r].promises)
  /\ gen[r].promises[i].state = "pending"
  /\ gen'[r].promises[i].state \notin {"pending", "rejected"}

\* C23 as stated: a successful synthesis is followed at once by the call of
\* setCachedAudio with the synthesized audio, and that call is made before
\* the response of the run is sent.
C23_StoreIssuedBeforeResponse ==
  [][\A r \in Reqs, i \in 1..2 :
       SynthSucceeded(r, i)
       => /\ gen'[r].promises[i].state = "storing"
          /\ gen'[r].promises[i].audioContent =
               SynthesizedAudio(silent, gen[r].chunksToGenerate[i],
                                gen[r].voiceConfig)
          /\ gen[r].pc # "responded"]_vars

\* C23 amended, the steps: a successful synthesis is followed at once, in
\* whatever state the other chunks are, by the call of setCachedAudio with
\* the synthesized audio, and an applied store writes that audio.
C23_StoreFollowsSynthesis ==
  \A r \in Reqs, i \in 1..2 :
    /\ SynthSucceeded(r, i)
         => /\ gen'[r].promises[i].state = "storing"
            /\ gen'[r].promises[i].audioContent =
                 SynthesizedAudio(silent, gen[r].chunksToGenerate[i],
                                  gen[r].voiceConfig)
            /\ gen'[r].promises[i].timestamp = now
    /\ StoreApplied(r, i)
         => ttsCache'[generateHash(gen[r].chunksToGenerate[i],
                                   gen[r].voiceConfig)].audioContent
              = gen[r].promises[i].audioContent

\* C23 amended, the response: when a success response has been sent, the
\* store of every synthesized chunk was called and applied before it.
C23_SuccessAfterStores ==
  \A r \in Reqs :
    gen[r].resp.status = 200
    => \A i \in 1..Len(gen[r].promises) :
         gen[r].promises[i].state = "fulfilled"

\* C23 amended: each successful synthesis is followed at once by a store of
\* the synthesized audio, without waiting for the other chunks; the stores
\* come before a success response, while after a failure response the
\* chunks still being synthesized are stored once they succeed.
C23_StoreFollowsSynthesisAtOnce ==
  []C23_SuccessAfterStores /\ [][C23_StoreFollowsSynthesis]_vars

\* The run has answered 500 for the failure of one chunk, and the store of
\* the other chunk, synthesized after that answer, has been called.
C23_Witness ==
  /\ gen[1].resp.status = 500
  /\ gen[1].caught = "synthesis"
  /\ \E i \in 1..Len(gen[1].promises) :
       /\ gen[1].promises[i].state = "storing"
       /\ gen[1].promises[i].timestamp > 0

\* The step in which the batch of cleanupOldCache is committed.
SweepCommitted == sweep.pc = "batch" /\ sweep'.pc = "idle"

\* C24: a lookup leaves the collection as it is, whether the entry it finds
\* is fresh or stale; entries leave the collection only in the commit of a
\* sweep, and an entry that stays is changed only by a store for its key.
C24_OnlySweepRemoves ==
  [][ /\ \A r \in Reqs : LookupAnswered(r) => ttsCache' = ttsCache
      /\ \A h \in DOMAIN ttsCache \ DOMAIN ttsCache' :
           SweepCommitted /\ h \in sweep.snapshot
      /\ \A h \in DOMAIN ttsCache \cap DOMAIN ttsCache' :
           ttsCache'[h] # ttsCache[h]
           => \/ \E r \in Reqs, i \in 1..2 :
                   /\ StoreApplied(r, i)
                   /\ h = generateHash(gen[r].chunksToGenerate[i],
                                       gen[r].voiceConfig)
              \/ /\ PreStoreApplied
                 /\ h = generateHash(pre.chunks[pre.ci], pre.voiceConfig)
    ]_vars

\* A lookup has missed a stale entry, the chunk waits for its synthesis, and
\* the stale entry is still in the collection.
C24_Witness ==
  /\ gen[1].sawExpired
  /\ gen[1].pc = "await"
  /\ \E i \in 1..Len(gen[1].promises) :
       /\ gen[1].promises[i].state = "pending"
       /\ Expired(ttsCache, now, gen[1].chunksToGenerate[i], gen[1].voiceConfig)

\* C25: at every instant and for every entry of the collection, a lookup
\* reports a miss because of the age of the entry exactly when the query of
\* cleanupOldCache(cacheTtl), run at that instant, selects the entry.
C25_LookupAndSweepAgree ==
  \A k \in StoredPairs :
    generateHash(k.text, k.voiceConfig) \in DOMAIN ttsCache
    => ( getCachedAudio(ttsCache, now, k.text, k.voiceConfig) = Null
         <=> generateHash(k.text, k.voiceConfig)
               \in OldCacheQuery(ttsCache, now, cacheTtl) )

\* The whitespace-delimited words of s, from position i on, cur being the
\* word read so far.
RECURSIVE WordsFrom(_, _, _)
WordsFrom(s, i, cur) ==
  IF i > Len(s) THEN (IF cur = <<>> THEN <<>> ELSE <<cur>>)
  ELSE IF IsSpace(s[i])
       THEN (IF cur = <<>> THEN <<>> ELSE <<cur>>) \o WordsFrom(s, i + 1, <<>>)
       ELSE WordsFrom(s, i + 1, Append(cur, s[i]))

WordsOf(s) == WordsFrom(s, 1, <<>>)

\* The words of the segments, read in order.
RECURSIVE WordsOfAll(_)
WordsOfAll(segments) ==
  IF segments = <<>> THEN <<>>
  ELSE WordsOf(Head(segments)) \o WordsOfAll(Tail(segments))

\* C26: for every text longer than maxChunkSize the words of the segments of
\* splitTextIntoChunks(text), read in order, are the words of the text, and
\* no segment is empty.
C26_ChunkerKeepsWords ==
  (chunkerOut.ran /\ Len(chunkerText) > maxChunkSize)
  => /\ WordsOfAll(chunkerOut.chunks) = WordsOf(chunkerText)
     /\ \A i \in 1..Len(chunkerOut.chunks) : chunkerOut.chunks[i] # <<>>

\* A text of three sentences, separated by a space and by a tab, cut into
\* two segments.
C26_Witness ==
  /\ chunkerOut.ran
  /\ chunkerText = <<"a", ".", " ", ".", "\t", "a">>
  /\ Len(chunkerOut.chunks) = 2
  /\ WordsOf(chunkerText) = <<<<"a", ".">>, <<".">>, <<"a">>>>

\* C27, the counts: in a success response totalChunks is cachedChunks +
\* generatedChunks and the number of segments of the text, every segment
\* occurs in the list as often as in the text, and generatedChunks is the
\* number of synthesizeSpeech calls of the run.
C27_ResponseCounts ==
  \A r \in Reqs :
    gen[r].resp.status = 200
    => LET body == gen[r].resp.body
       IN /\ body.totalChunks = body.cachedChunks + body.generatedChunks
          /\ body.totalChunks = Len(gen[r].chunks)
          /\ body.totalChunks = Len(body.chunks)
          /\ \A j \in 1..Len(gen[r].chunks) :
               Count(TextsOf(body.chunks), gen[r].chunks[j])
                 = Count(gen[r].chunks, gen[r].chunks[j])
          /\ body.generatedChunks = Len(gen[r].promises)
          /\ body.cachedChunks =
               Cardinality({i \in 1..Len(body.chunks) : body.chunks[i].cached})

\* C27, the marks: the chunk of a lookup is listed as cached when the lookup
\* hit a fresh entry, and queued for synthesis, to be listed as not cached,
\* when it did not.
C27_CachedMarkFollowsLookup ==
  \A r \in Reqs :
    LookupAnswered(r)
    => IF Fresh(ttsCache, now, gen[r].chunks[gen[r].idx], gen[r].voiceConfig)
       THEN /\ Len(gen'[r].cachedChunks) = Len(gen[r].cachedChunks) + 1
            /\ gen'[r].cachedChunks[Len(gen'[r].cachedChunks)].cached
            /\ gen'[r].chunksToGenerate = gen[r].chunksToGenerate
       ELSE /\ gen'[r].cachedChunks = gen[r].cachedChunks
            /\ gen'[r].chunksToGenerate =
                 Append(gen[r].chunksToGenerate, gen[r].chunks[gen[r].idx])

\* C27: in every success response totalChunks = cachedChunks +
\* generatedChunks = the number of segments, every segment occurrence is
\* listed once, marked cached exactly when its lookup hit, and
\* generatedChunks is the number of synthesis calls the run made.
C27_ResponseAccountsForSegments ==
  []C27_ResponseCounts /\ [][C27_CachedMarkFollowsLookup]_vars

\* Run 1 was answered 500 because a synthesizeSpeech call failed, and no
\* sweep has deleted anything since.
FailedOnSynthesis ==
  /\ gen[1].resp.status = 500
  /\ gen[1].caught = "synthesis"
  /\ sweepCommits = 0

\* The chunk was synthesized in run 1 and its store has been applied.
SynthesizedInRunOne(chunk) ==
  \E i \in 1..Len(gen[1].promises) :
    /\ gen[1].chunksToGenerate[i] = chunk
    /\ gen[1].promises[i].state = "fulfilled"

\* C28, the stores: in a run that failed on a synthesis, the chunk of every
\* promise that was fulfilled, before or after the response, has its entry
\* in the cache.
C28_SucceededSegmentsStored ==
  FailedOnSynthesis
  => \A i \in 1..Len(gen[1].promises) :
       gen[1].promises[i].state = "fulfilled"
       => generateHash(gen[1].chunksToGenerate[i], gen[1].voiceConfig)
            \in DOMAIN ttsCache

\* C28, the repeat: a lookup of the repeated request, made at the time of
\* the stores of run 1, for a chunk synthesized in run 1 does not queue the
\* chunk for synthesis.
C28_RepeatSkipsSynthesized ==
  ( /\ FailedOnSynthesis
    /\ gen[2].text = gen[1].text
    /\ gen[2].voiceConfig = gen[1].voiceConfig
    /\ now = 0
    /\ LookupAnswered(2)
    /\ SynthesizedInRunOne(gen[2].chunks[gen[2].idx]) )
  => gen'[2].chunksToGenerate = gen[2].chunksToGenerate

\* C28: when a run fails because the synthesis of one segment failed, every
\* other segment whose synthesis succeeds is still stored, also when it
\* finishes after the failure response, so that an immediately repeated
\* request for the same text and voice makes synthesis calls only for the
\* segments that were not synthesized before.
C28_FailedRunKeepsItsSegments ==
  []C28_SucceededSegmentsStored /\ [][C28_RepeatSkipsSynthesized]_vars

\* The pregenerate request reported success for the sermon and the language
\* of generate request 1, whose text is the content pregenerate read from
\* that sermon.
PregeneratedForRequest ==
  /\ pre.resp.status = 200
  /\ \E k \in 1..Len(pre.resp.body.results) :
       /\ pre.resp.body.results[k].status = "success"
       /\ pre.resp.body.results[k].language = gen[1].language
       /\ gen[1].text = SermonContent(sermons[pre.resp.body.results[k].sermonId])

\* C29: after pregenerate reported success for a (sermon, language), a
\* generate request with the sermon's content and the same language, made
\* within cacheTtl of the stores and with no sweep in between, makes no
\* synthesis call and, when it answers 200, reports every segment cached.
C29_PregeneratedServedFromCache ==
  ( /\ PregeneratedForRequest
    /\ now = 0
    /\ sweepCommits = 0
    /\ gen[1].pc \notin {"idle", "lookup"}
    /\ gen[1].caught # "read" )
  => /\ gen[1].promises = <<>>
     /\ gen[1].chunksToGenerate = <<>>
     /\ gen[1].resp.status = 200
        => /\ gen[1].resp.body.cachedChunks = Len(gen[1].chunks)
           /\ \A i \in 1..Len(gen[1].resp.body.chunks) :
                gen[1].resp.body.chunks[i].cached

\* The requests that were answered 200 and carried a sermon id.
LoggedRuns ==
  {r \in Reqs : gen[r].resp.status = 200 /\ gen[r].sermonId # NoSermon}

\* C30, the records: the log has one record for each request answered 200
\* with a sermon id, in the order of the requests, with the sermon id and
\* the counts of the response, and no other record.
C30_OneRecordPerSuccessfulRun ==
  /\ Len(ttsUsage) = Cardinality(LoggedRuns)
  /\ \A r \in LoggedRuns :
       LET k == Cardinality({q \in LoggedRuns : q <= r})
       IN /\ ttsUsage[k].sermonId = gen[r].sermonId
          /\ ttsUsage[k].chunksCount = gen[r].resp.body.totalChunks
          /\ ttsUsage[k].cachedChunks = gen[r].resp.body.cachedChunks

\* C30, the log: a step leaves the log as it is or appends one record.
C30_AppendOnly ==
  \/ ttsUsage' = ttsUsage
  \/ /\ Len(ttsUsage') = Len(ttsUsage) + 1
     /\ SubSeq(ttsUsage', 1, Len(ttsUsage)) = ttsUsage

\* C30: the usage log is append-only; it gets exactly one record for each
\* generate request that succeeds with a sermon id, carrying the chunksCount
\* and cachedChunks of the response, and none for a request that fails or
\* has no sermon id.
C30_UsageLogRecordsSuccessfulRuns ==
  []C30_OneRecordPerSuccessfulRun /\ [][C30_AppendOnly]_vars

\* C30 witness: two requests with a sermon id succeeded one after the other,
\* the first with nothing cached and the second served from the cache, next
\* to which the log holds the two records.
C30_Witness ==
  /\ LoggedRuns = Reqs
  /\ Len(ttsUsage) = 2
  /\ gen[1].resp.body.cachedChunks = 0
  /\ gen[1].resp.body.totalChunks = 2
  /\ gen[2].resp.body.cachedChunks = 2

====
